---- MODULE Spec2Model ----
(***************************************************************************)
(* PixPlot network export (pixplot_network_export.py): one run of main(),  *)
(* from the command line and the files of the data directory to the edges  *)
(* and nodes CSV files.                                                    *)
(*                                                                         *)
(* Numbers.  Coordinates are integers.  A distance is kept in thousandths  *)
(* (fixed point, rounded down), a weight in thousandths as well; the       *)
(* constant 1e-5 of the weight formula is one unit of 1e-5, so             *)
(*   weight = 1 / (distance + 1e-5) = 10^5 / (100 * d + EPS)               *)
(* for a distance of d thousandths.                                        *)
(*                                                                         *)
(* Paths are sequences of components, <<"dir", "a.jpg">>; the output path  *)
(* of the command line is a sequence of characters, because                *)
(* os.path.splitext looks at its dots and separators.                      *)
(***************************************************************************)
EXTENDS Integers, Sequences, FiniteSets, TLC

VARIABLES args, fs, pc, log, error, image_filenames, positions, neighbors,
          metadata, network_data, nodes, out, writes

vars == <<args, fs, pc, log, error, image_filenames, positions, neighbors,
          metadata, network_data, nodes, out, writes>>

(***************************************************************************)
(* Bounds of the inputs.                                                   *)
(***************************************************************************)
\* largest coordinate of a layout point
MaxCoord == 1
\* most positions in a layout file
MaxP == 3
\* most filenames in an image list
MaxF == 3
\* largest --n_neighbors
MaxK == 2

(***************************************************************************)
(* Small helpers.                                                          *)
(***************************************************************************)
Min(a, b) == IF a <= b THEN a ELSE b

Range(s) == {s[i] : i \in DOMAIN s}

\* a prefix that is one element short: s[:n-1]
PrefixShort(s, n) == SubSeq(s, 1, Min(n, Len(s)) - 1)

\* s[:n] of Python, n >= 0
Prefix(s, n) == SubSeq(s, 1, Min(n, Len(s)))

\* all sequences over S of length 0..n
SeqsUpTo(S, n) == UNION {[1..m -> S] : m \in 0..n}

\* all orderings of the finite set S, as sequences
RECURSIVE Perms(_)
Perms(S) ==
  IF S = {} THEN {<<>>}
  ELSE UNION {{<<x>> \o p : p \in Perms(S \ {x})} : x \in S}


\* floor of the square root of n >= 0, by Newton's iteration from a guess x >= it
RECURSIVE ISqrtFrom(_, _)
ISqrtFrom(n, x) ==
  IF x = 0 THEN 0
  ELSE LET y == (x + n \div x) \div 2
       IN IF y >= x THEN x ELSE ISqrtFrom(n, y)

Abs(a) == IF a < 0 THEN -a ELSE a

(***************************************************************************)
(* os.path.basename of an image path.                                      *)
(***************************************************************************)
Basename(path) == path[Len(path)]

(***************************************************************************)
(* scipy.spatial.distance: euclidean(u, v), in thousandths.  cdist(X, X,   *)
(* 'euclidean')[i][j] is the same number for points i and j.               *)
(***************************************************************************)
Euclidean(u, v) ==
  ISqrtFrom(((u[1] - v[1]) * (u[1] - v[1]) + (u[2] - v[2]) * (u[2] - v[2])) * 1000000,
            1000 * (Abs(u[1] - v[1]) + Abs(u[2] - v[2])))

DistMatrix(pts) ==
  [i \in 1..Len(pts) |-> [j \in 1..Len(pts) |-> Euclidean(pts[i], pts[j])]]

\* the 1e-5 of the weight formula, in units of 1e-5
EPS == 1

\* 1.0 / (distance_val + 1e-5), in thousandths
Weight(d) == 100000000 \div (100 * d + EPS)

(***************************************************************************)
(* numpy.argsort(row) with the default kind ('quicksort'): the indices in  *)
(* ascending order of their values.  The default sort is not stable: the   *)
(* order of equal values is whatever the build of numpy makes it.  A build *)
(* is a deterministic function of the row; it is modelled by the order     *)
(* tie, a permutation of the indices, in which it places equal values.     *)
(* The identity is the stable order; every order of the equal values of a  *)
(* row is the result under some tie.                                       *)
(***************************************************************************)
PlaceIn(tie, i) == CHOOSE a \in 1..Len(tie) : tie[a] = i

Before(row, tie, i, j) ==
  \/ row[i] < row[j]
  \/ row[i] = row[j] /\ PlaceIn(tie, i) < PlaceIn(tie, j)

RECURSIVE SortIndices(_, _, _)
SortIndices(row, tie, left) ==
  IF left = {} THEN <<>>
  ELSE LET first == CHOOSE i \in left : \A j \in left \ {i} : Before(row, tie, i, j)
       IN <<first>> \o SortIndices(row, tie, left \ {first})

Argsort(row, tie) == SortIndices(row, tie, 1..Len(row))

\* a slice that stops one short: closest_indices[1:n_neighbors]
SliceNeighborsShort(closest_indices, n_neighbors) ==
  SubSeq(closest_indices, 2, Min(n_neighbors, Len(closest_indices)))

\* closest_indices[1:n_neighbors+1], n_neighbors >= 0 (indices count from 1 here)
SliceNeighbors(closest_indices, n_neighbors) ==
  SubSeq(closest_indices, 2, Min(n_neighbors + 1, Len(closest_indices)))

(***************************************************************************)
(* find_nearest_neighbors(positions, n_neighbors): one neighbour list per  *)
(* point; the results it can return, one per order of equal distances.     *)
(***************************************************************************)
NeighborsWith(dist_matrix, n_neighbors, tie) ==
  [i \in 1..Len(dist_matrix) |-> SliceNeighbors(Argsort(dist_matrix[i], tie), n_neighbors)]

FindNearestNeighbors(pts, n_neighbors) ==
  LET dist_matrix == DistMatrix(pts)
  IN {NeighborsWith(dist_matrix, n_neighbors, tie) : tie \in Perms(1..Len(pts))}

(***************************************************************************)
(* get_thumbnail_path / get_original_path: the first candidate that exists *)
(* under the data directory, else the default path.                        *)
(***************************************************************************)
MediaPath(media, kind, filename) ==
  LET first == <<kind, Basename(filename)>>
      second == <<"data", kind, Basename(filename)>>
  IN IF first \in media THEN first
     ELSE IF second \in media THEN second
     ELSE first

GetThumbnailPath(media, filename) == MediaPath(media, "thumbs", filename)

GetOriginalPath(media, filename) == MediaPath(media, "originals", filename)

(***************************************************************************)
(* load_metadata(data_dir, image_filenames): {} when there is no metadata  *)
(* directory; else one entry per base filename, {} for a file that is      *)
(* absent or cannot be parsed.  A dictionary is a function on its keys;    *)
(* the mapping is a function on the base filenames it has.                 *)
(***************************************************************************)
EmptyDict == [k \in {} |-> 0]

LoadMetadata(files, filenames) ==
  IF ~files.metadata_dir THEN EmptyDict
  ELSE [b \in {Basename(f) : f \in Range(filenames)} |->
          IF files.metadata_files[b].state = "json"
          THEN files.metadata_files[b].json
          ELSE EmptyDict]

(***************************************************************************)
(* extract_network_data, the loop that prepares network_data: one row per  *)
(* point i and neighbour j of it, in that order.                           *)
(***************************************************************************)
\* the rank counted from 0, as enumerate does
EdgeRankFromZero(j) == j - 1

\* 'rank': j + 1 for the j of enumerate, which counts from 0; j counts from 1 here
EdgeRank(j) == j

EdgeRow(filenames, pts, i, j, neighbor_idx) ==
  LET distance_val == Euclidean(pts[i], pts[neighbor_idx])
  IN [source |-> Basename(filenames[i]),
      target |-> Basename(filenames[neighbor_idx]),
      weight |-> Weight(distance_val),
      distance |-> distance_val,
      rank |-> EdgeRank(j),
      source_x |-> pts[i][1],
      source_y |-> pts[i][2],
      target_x |-> pts[neighbor_idx][1],
      target_y |-> pts[neighbor_idx][2]]

RowsOfPoint(filenames, pts, nbrs, i) ==
  [j \in 1..Len(nbrs[i]) |-> EdgeRow(filenames, pts, i, j, nbrs[i][j])]

RECURSIVE RowsFrom(_, _, _, _)
RowsFrom(filenames, pts, nbrs, i) ==
  IF i > Len(filenames) THEN <<>>
  ELSE RowsOfPoint(filenames, pts, nbrs, i) \o RowsFrom(filenames, pts, nbrs, i + 1)

NetworkData(filenames, pts, nbrs) == RowsFrom(filenames, pts, nbrs, 1)

(***************************************************************************)
(* create_node_csv: the nodes dictionary, kept as the sequence of its      *)
(* entries in insertion order, each [key, rec].                            *)
(***************************************************************************)
HasNode(acc, key) == \E n \in 1..Len(acc) : acc[n].key = key

NodeSeed(id, x, y, include_thumbs, media) ==
  LET base == [id |-> id, x |-> x, y |-> y]
  IN IF include_thumbs
     THEN [k \in {"id", "x", "y", "thumb", "original"} |->
             CASE k = "thumb" -> GetThumbnailPath(media, <<id>>)
               [] k = "original" -> GetOriginalPath(media, <<id>>)
               [] OTHER -> base[k]]
     ELSE base

\* one row of the first loop: the source, then the target
AddRowNodes(acc, row, include_thumbs, media) ==
  LET withSource ==
        IF HasNode(acc, row.source) THEN acc
        ELSE Append(acc, [key |-> row.source,
                          rec |-> NodeSeed(row.source, row.source_x, row.source_y,
                                           include_thumbs, media)])
  IN IF HasNode(withSource, row.target) THEN withSource
     ELSE Append(withSource, [key |-> row.target,
                              rec |-> NodeSeed(row.target, row.target_x, row.target_y,
                                               include_thumbs, media)])

RECURSIVE CollectNodes(_, _, _, _)
CollectNodes(rows, n, include_thumbs, media) ==
  IF n = 0 THEN <<>>
  ELSE AddRowNodes(CollectNodes(rows, n - 1, include_thumbs, media), rows[n],
                   include_thumbs, media)

\* every key of the entry, 'filename' too
MergedKeysAll(entry) == DOMAIN entry

\* the keys of a metadata entry that are copied onto the node
MergedKeys(entry) == DOMAIN entry \ {"filename"}

MergeMetadata(node, md) ==
  IF node.key \in DOMAIN md
  THEN [key |-> node.key,
        rec |-> [k \in DOMAIN node.rec \cup MergedKeys(md[node.key]) |->
                   IF k \in MergedKeys(md[node.key]) THEN md[node.key][k]
                   ELSE node.rec[k]]]
  ELSE node

Nodes(rows, md, include_thumbs, media) ==
  LET seeded == CollectNodes(rows, Len(rows), include_thumbs, media)
  IN [n \in 1..Len(seeded) |-> MergeMetadata(seeded[n], md)]

(***************************************************************************)
(* Column order.  Python compares strings by code point, character by      *)
(* character; Spelling gives the code points of the column names in use.   *)
(***************************************************************************)
Spelling(s) ==
  CASE s = "source" -> <<115, 111, 117, 114, 99, 101>>
    [] s = "target" -> <<116, 97, 114, 103, 101, 116>>
    [] s = "weight" -> <<119, 101, 105, 103, 104, 116>>
    [] s = "distance" -> <<100, 105, 115, 116, 97, 110, 99, 101>>
    [] s = "rank" -> <<114, 97, 110, 107>>
    [] s = "source_x" -> <<115, 111, 117, 114, 99, 101, 95, 120>>
    [] s = "source_y" -> <<115, 111, 117, 114, 99, 101, 95, 121>>
    [] s = "target_x" -> <<116, 97, 114, 103, 101, 116, 95, 120>>
    [] s = "target_y" -> <<116, 97, 114, 103, 101, 116, 95, 121>>
    [] s = "id" -> <<105, 100>>
    [] s = "x" -> <<120>>
    [] s = "y" -> <<121>>
    [] s = "thumb" -> <<116, 104, 117, 109, 98>>
    [] s = "original" -> <<111, 114, 105, 103, 105, 110, 97, 108>>
    [] s = "label" -> <<108, 97, 98, 101, 108>>
    [] s = "Year" -> <<89, 101, 97, 114>>
    [] s = "filename" -> <<102, 105, 108, 101, 110, 97, 109, 101>>

RECURSIVE CodesLeq(_, _)
CodesLeq(a, b) ==
  IF a = <<>> THEN TRUE
  ELSE IF b = <<>> THEN FALSE
  ELSE IF a[1] # b[1] THEN a[1] < b[1]
  ELSE CodesLeq(Tail(a), Tail(b))

StrLeq(s, t) == CodesLeq(Spelling(s), Spelling(t))

\* the names of S from the greatest down: sorted(list(S), reverse=True)
RECURSIVE SortedDown(_)
SortedDown(S) ==
  IF S = {} THEN <<>>
  ELSE LET greatest == CHOOSE x \in S : \A y \in S : StrLeq(y, x)
       IN <<greatest>> \o SortedDown(S \ {greatest})

\* sorted(list(S)) for a set S of column names
RECURSIVE Sorted(_)
Sorted(S) ==
  IF S = {} THEN <<>>
  ELSE LET least == CHOOSE x \in S : \A y \in S : StrLeq(x, y)
       IN <<least>> \o Sorted(S \ {least})

AllKeys(recs) == UNION {DOMAIN recs[n] : n \in 1..Len(recs)}

essential_cols == <<"source", "target", "weight", "distance", "rank">>

\* write_csv: the header of the edges file
EdgeFieldnames(rows) == essential_cols \o Sorted(AllKeys(rows) \ Range(essential_cols))

\* create_node_csv: the header of the nodes file
NodeFieldnames(recs) == <<"id">> \o Sorted(AllKeys(recs) \ {"id"})

(***************************************************************************)
(* The output files.  out maps a path to the file written there; a write   *)
(* that fails after open() leaves the truncated file behind.               *)
(***************************************************************************)
NoFiles == [p \in {} |-> 0]

Put(files, path, content) ==
  [p \in DOMAIN files \cup {path} |-> IF p = path THEN content ELSE files[p]]

TruncatedFile == [fieldnames |-> <<>>, rows |-> <<>>, complete |-> FALSE]

AfterWrite(files, path, fieldnames, rows, outcome) ==
  CASE outcome = "ok" ->
         Put(files, path, [fieldnames |-> fieldnames, rows |-> rows, complete |-> TRUE])
    [] outcome = "write_failed" -> Put(files, path, TruncatedFile)
    [] OTHER -> files

(***************************************************************************)
(* os.path.splitext on a path given as its characters, and the path of the *)
(* nodes file that main derives from --output.                             *)
(***************************************************************************)
LastIndexOf(path, c) ==
  LET at == {i \in 1..Len(path) : path[i] = c}
  IN IF at = {} THEN 0 ELSE CHOOSE i \in at : \A j \in at : j <= i

Splitext(path) ==
  LET sepIndex == LastIndexOf(path, "/")
      dotIndex == LastIndexOf(path, ".")
  IN IF dotIndex > sepIndex /\ \E i \in (sepIndex + 1)..(dotIndex - 1) : path[i] # "."
     THEN <<SubSeq(path, 1, dotIndex - 1), SubSeq(path, dotIndex, Len(path))>>
     ELSE <<path, <<>> >>

\* the output path itself, the suffix forgotten
NodesPathSame(output) == output

NodesPath(output) ==
  Splitext(output)[1] \o <<"_", "n", "o", "d", "e", "s", ".", "c", "s", "v">>

(***************************************************************************)
(* The inputs of a run: the command line and the data directory.           *)
(***************************************************************************)
Names == <<"a.jpg", "b.jpg", "c.jpg", "d.jpg", "e.jpg", "f.jpg">>

\* the layout points and the image list of the four-point scenario
ScenarioPoints == <<<<0, 0>>, <<1, 0>>, <<0, 1>>, <<5, 5>>>>

ScenarioImages == [i \in 1..Len(ScenarioPoints) |-> <<"imgs", Names[i]>>]

Grid == (0..MaxCoord) \X (0..MaxCoord)

Layouts == SeqsUpTo(Grid, MaxP)

\* the grid walked row by row: P distinct points while P <= (MaxCoord + 1)^2
Walk(P) ==
  [i \in 1..P |-> <<(i - 1) % (MaxCoord + 1), ((i - 1) \div (MaxCoord + 1)) % (MaxCoord + 1)>>]

\* the image list of F distinct names
DistinctList(F) == [i \in 1..F |-> <<"imgs", Names[i]>>]

\* the same list with entry j naming the first image again, in another directory
RepeatList(F, j) ==
  [i \in 1..F |-> IF i = j THEN <<"more", Names[1]>> ELSE <<"imgs", Names[i]>>]

DistinctLists == {DistinctList(F) : F \in 0..MaxF}

ImageLists ==
  DistinctLists \cup {RepeatList(F, j) : F \in 1..MaxF, j \in 1..MaxF}

\* what <metadata dir>/<base>.json can be
MetaFile(n, base) ==
  CASE n = 1 -> [state |-> "absent", json |-> EmptyDict]
    [] n = 2 -> [state |-> "corrupt", json |-> EmptyDict]
    [] n = 3 -> [state |-> "json", json |-> [filename |-> base, label |-> base]]
    [] n = 4 -> [state |-> "json", json |-> [label |-> base, x |-> 9]]
    [] OTHER -> [state |-> "json", json |-> [id |-> Names[2], Year |-> 1900]]

MetaFileKinds == 1..5

NoMetaFiles == [b \in Range(Names) |-> MetaFile(1, b)]

\* the metadata directories that hold a file, of any kind, for the images' base names
MetaDirs(images) ==
  LET bases == {Basename(f) : f \in Range(images)}
  IN {[b \in Range(Names) |-> IF b \in bases THEN MetaFile(g[b], b) ELSE MetaFile(1, b)] :
        g \in [bases -> MetaFileKinds]}

\* which thumbnails and originals exist under the data directory
MediaConfigs ==
  {{},
   {<<"data", "thumbs", Names[1]>>},
   {<<"thumbs", Names[1]>>, <<"data", "thumbs", Names[1]>>, <<"data", "originals", Names[1]>>}}

\* values of --output
OutputArgs ==
  {<<"n", ".", "c", "s", "v">>,
   <<"n">>,
   <<".", "n">>,
   <<"d", ".", "x", "/", "n">>}

DefaultOutput == <<"n", ".", "c", "s", "v">>

\* what becomes of a write of an output file: it succeeds, open() fails, or the
\* write fails after open() has truncated the file
WriteOutcomes == {"ok", "open_failed", "write_failed"}

WritableDisk == [edges |-> "ok", nodes |-> "ok"]

\* the data directory, the manifest, the image list and the layout file: all found
\* and readable, or the first of them that is not (the code stops there)
LoaderStates ==
  {<<TRUE, "ok", "ok", "ok">>,
   <<FALSE, "ok", "ok", "ok">>,
   <<TRUE, "missing", "ok", "ok">>, <<TRUE, "unreadable", "ok", "ok">>,
   <<TRUE, "ok", "missing", "ok">>, <<TRUE, "ok", "unreadable", "ok">>,
   <<TRUE, "ok", "ok", "missing">>, <<TRUE, "ok", "ok", "unreadable">>}

Args(k, output, include_thumbs, include_metadata) ==
  [n_neighbors |-> k, output |-> output,
   include_thumbs |-> include_thumbs, include_metadata |-> include_metadata]

Files(found, images, form, pts, metadata_dir, metadata_files, media, disk) ==
  [data_dir |-> found[1], manifest |-> found[2],
   imagelist |-> [status |-> found[3], images |-> images],
   layout |-> [status |-> found[4], form |-> form, positions |-> pts],
   metadata_dir |-> metadata_dir, metadata_files |-> metadata_files, media |-> media,
   disk |-> disk]

GoodFiles(images, pts, metadata_dir, metadata_files, media) ==
  Files(<<TRUE, "ok", "ok", "ok">>, images, "list", pts, metadata_dir, metadata_files,
        media, WritableDisk)

Start(a, f) ==
  /\ args = a
  /\ fs = f
  /\ pc = "main"
  /\ log = <<>>
  /\ error = "none"
  /\ image_filenames = <<>>
  /\ positions = <<>>
  /\ neighbors = <<>>
  /\ metadata = EmptyDict
  /\ network_data = <<>>
  /\ nodes = <<>>
  /\ out = NoFiles
  /\ writes = <<>>

\* runs over every layout of the grid, with as many images as the longest of them
PointRuns ==
  \E k \in {1, MaxK}, pts \in Layouts :
    Start(Args(k, DefaultOutput, FALSE, FALSE),
          GoodFiles(DistinctList(MaxP), pts, FALSE, NoMetaFiles, {}))

\* the four-point scenario
ScenarioRuns ==
  \E k \in 0..MaxK :
    Start(Args(k, DefaultOutput, FALSE, FALSE),
          GoodFiles(ScenarioImages, ScenarioPoints, FALSE, NoMetaFiles, {}))

\* runs over every image list, with more, as many and fewer positions than images
ListRuns ==
  \E k \in 0..MaxK, images \in ImageLists, P \in 0..MaxP :
    Start(Args(k, DefaultOutput, FALSE, FALSE),
          GoodFiles(images, Walk(P), FALSE, NoMetaFiles, {}))

\* runs that vary the metadata files of the images
MetaRuns ==
  \E k \in {1, MaxK}, images \in ImageLists, include_thumbs \in BOOLEAN :
    \E metadata_files \in MetaDirs(images) :
      Start(Args(k, DefaultOutput, include_thumbs, TRUE),
            GoodFiles(images, Walk(Len(images)), TRUE, metadata_files,
                      {<<"data", "thumbs", Names[1]>>}))

\* runs that vary the thumbnails and originals found
ThumbRuns ==
  \E k \in {1, MaxK}, images \in ImageLists, media \in MediaConfigs,
     include_metadata \in BOOLEAN, metadata_dir \in BOOLEAN :
    Start(Args(k, DefaultOutput, TRUE, include_metadata),
          GoodFiles(images, Walk(Len(images)), metadata_dir, NoMetaFiles, media))

\* runs that vary which input files are found and can be read
LoaderRuns ==
  \E k \in 0..1, F \in 0..MaxF, P \in 0..MaxP, form \in {"list", "dict"},
     found \in LoaderStates :
    Start(Args(k, DefaultOutput, FALSE, FALSE),
          Files(found, DistinctList(F), form, Walk(P), FALSE, NoMetaFiles, {},
                WritableDisk))

\* runs that vary the output path and what becomes of the two writes
WriterRuns ==
  \E k \in 1..MaxK, P \in 2..MaxP, output \in OutputArgs,
     edges \in WriteOutcomes, nodes_ \in WriteOutcomes :
    Start(Args(k, output, FALSE, FALSE),
          Files(<<TRUE, "ok", "ok", "ok">>, DistinctList(P), "list", Walk(P), FALSE,
                NoMetaFiles, {}, [edges |-> edges, nodes |-> nodes_]))

Init ==
  PointRuns \/ ScenarioRuns \/ ListRuns \/ MetaRuns \/ ThumbRuns \/ LoaderRuns \/ WriterRuns

(***************************************************************************)
(* main() and the functions it calls, step by step.  pc is the place of    *)
(* the run: "done" when main has returned, "raised" when an exception left *)
(* it.                                                                     *)
(***************************************************************************)
Say(msgs) == log' = log \o msgs

\* extract_network_data returns None: main reports it and returns
ReturnNone(msg) ==
  /\ Say(<<msg, "Failed to extract network data">>)
  /\ pc' = "done"
  /\ UNCHANGED <<error, image_filenames, positions, neighbors, metadata, network_data>>

\* main, up to the check of --data_dir
Main ==
  /\ pc = "main"
  /\ IF ~fs.data_dir
     THEN /\ Say(<<"Error: Directory does not exist">>)
          /\ pc' = "done"
     ELSE /\ Say(<<>>)
          /\ pc' = "extract"
  /\ UNCHANGED <<args, fs, error, image_filenames, positions, neighbors, metadata,
                 network_data, nodes, out, writes>>

\* extract_network_data from the truncation of positions and filenames on, and main's
\* look at what it returns.  cdist refuses an array that is not two-dimensional, as
\* np.array([]) is: the exception leaves main.
Assemble(got, images) ==
  LET min_count == Min(Len(got), Len(images))
      warn == IF Len(got) # Len(images)
              THEN <<"Warning: Number of positions doesn't match number of images">>
              ELSE <<>>
  IN /\ positions' = IF Len(got) # Len(images) THEN Prefix(got, min_count) ELSE got
     /\ image_filenames' = IF Len(got) # Len(images) THEN Prefix(images, min_count)
                           ELSE images
     /\ IF Len(positions') = 0
        THEN /\ error' = "ValueError"
             /\ pc' = "raised"
             /\ Say(warn)
             /\ UNCHANGED <<neighbors, metadata, network_data>>
        ELSE /\ neighbors' \in FindNearestNeighbors(positions', args.n_neighbors)
             /\ metadata' = IF args.include_metadata
                            THEN LoadMetadata(fs, image_filenames')
                            ELSE EmptyDict
             /\ network_data' = NetworkData(image_filenames', positions', neighbors')
             /\ UNCHANGED error
             /\ IF network_data' = <<>>
                THEN /\ Say(warn \o <<"No network data was generated">>)
                     /\ pc' = "done"
                ELSE /\ Say(warn)
                     /\ pc' = "write_edges"

\* main: result = extract_network_data(...), and the two checks of the result
Extract ==
  /\ pc = "extract"
  /\ IF fs.manifest = "missing"
       THEN ReturnNone("Manifest file not found in any expected location")
     ELSE IF fs.manifest = "unreadable"
       THEN ReturnNone("Failed to read manifest")
     ELSE IF fs.imagelist.status = "missing"
       THEN ReturnNone("Could not find imagelist file")
     ELSE IF fs.imagelist.status = "unreadable"
       THEN ReturnNone("Failed to read imagelist")
     ELSE IF fs.imagelist.images = <<>>
       THEN ReturnNone("No images found in image list")
     ELSE IF fs.layout.status = "missing"
       THEN ReturnNone("Could not find any layout files")
     ELSE IF fs.layout.status = "unreadable"
             \/ (fs.layout.form = "list" /\ fs.layout.positions = <<>>)
       THEN ReturnNone("Failed to read positions data")
     ELSE Assemble(fs.layout.positions, fs.imagelist.images)
  /\ UNCHANGED <<args, fs, nodes, out, writes>>

\* main: success = write_csv(network_data, edges_path)
WriteEdges ==
  /\ pc = "write_edges"
  /\ LET outcome == fs.disk.edges
     IN
       /\ out' = AfterWrite(out, args.output, EdgeFieldnames(network_data),
                            network_data, outcome)
       /\ writes' = Append(writes, [path |-> args.output, outcome |-> outcome])
       /\ IF outcome = "ok"
          THEN /\ Say(<<"Wrote relationships">>)
               /\ pc' = "write_nodes"
          ELSE /\ Say(<<"Error writing CSV", "Failed to write network data">>)
               /\ pc' = "done"
  /\ UNCHANGED <<args, fs, error, image_filenames, positions, neighbors, metadata,
                 network_data, nodes>>

\* main: create_node_csv(...), whose result main does not look at, and the final report
WriteNodes ==
  /\ pc = "write_nodes"
  /\ nodes' = Nodes(network_data, metadata, args.include_thumbs, fs.media)
  /\ LET outcome == fs.disk.nodes
       recs == [n \in 1..Len(nodes') |-> nodes'[n].rec]
     IN   /\ out' = AfterWrite(out, NodesPath(args.output), NodeFieldnames(recs),
                               recs, outcome)
          /\ writes' = Append(writes, [path |-> NodesPath(args.output),
                                       outcome |-> outcome])
          /\ Say(<<IF outcome = "ok" THEN "Wrote nodes" ELSE "Error writing nodes CSV",
                   "Network data successfully exported">>)
  /\ pc' = "done"
  /\ UNCHANGED <<args, fs, error, image_filenames, positions, neighbors, metadata,
                 network_data>>

Next == Main \/ Extract \/ WriteEdges \/ WriteNodes

Spec == Init /\ [][Next]_vars

(***************************************************************************)
(* Properties.                                                             *)
(***************************************************************************)
\* find_nearest_neighbors has returned
Ranked == neighbors # <<>>

N == Len(positions)

IsSelfLoop(row) == row.source = row.target

\* the points are the indices 1..N here, 0..N-1 in the code
Distinct(list) == \A a, b \in 1..Len(list) : a # b => list[a] # list[b]

\* C1: no self-loops: every edge produced by extract_network_data has
\* source # target, whatever the points (coincident ones included) and the
\* image list.
C1_NoSelfLoops == \A n \in 1..Len(network_data) : ~IsSelfLoop(network_data[n])

\* C2: neighbour count bound: find_nearest_neighbors returns one list per
\* point, index-aligned with the points, each of length exactly min(k, N-1)
\* and of pairwise distinct indices of points; extract_network_data emits
\* exactly N * min(k, N-1) edges.
C2_NeighborCountBound ==
  Ranked =>
    /\ DOMAIN neighbors = 1..N
    /\ \A i \in 1..N :
         /\ Len(neighbors[i]) = Min(args.n_neighbors, N - 1)
         /\ Range(neighbors[i]) \subseteq 1..N
         /\ Distinct(neighbors[i])
    /\ Len(network_data) = N * Min(args.n_neighbors, N - 1)

\* more neighbours were asked for than there are other points
C2_Witness == Ranked /\ N = 2 /\ args.n_neighbors = 2 /\ Len(network_data) = 2

\* the neighbour lists of the four-point scenario under the stable order
ScenarioStable ==
  (positions = ScenarioPoints /\ args.n_neighbors = 2 /\ Ranked)
    => neighbors[1] = <<2, 3>> /\ neighbors[4] = <<2, 3>>

\* C3: tie-break: every neighbour list is in ascending distance from its
\* point, and neighbours at equal distance are in order of their index, the
\* lower first; in the four-point scenario with k = 2 the lists of the first
\* and of the last point are both the second and the third point.
C3_StableTieBreak ==
  /\ \A i \in 1..Len(neighbors) : \A a, b \in 1..Len(neighbors[i]) :
       a < b =>
         LET da == Euclidean(positions[i], positions[neighbors[i][a]])
             db == Euclidean(positions[i], positions[neighbors[i][b]])
         IN da < db \/ (da = db /\ neighbors[i][a] < neighbors[i][b])
  /\ ScenarioStable

\* the rows of network_data before those of point i
RECURSIVE Offset(_)
Offset(i) == IF i = 1 THEN 0 ELSE Offset(i - 1) + Len(neighbors[i - 1])

\* weight is 1 / (distance + 1e-5), in thousandths rounded down
IsWeightOf(w, d) ==
  /\ w * (100 * d + EPS) <= 100000000
  /\ (w + 1) * (100 * d + EPS) > 100000000

\* C4: rank monotonicity: the edges emitted for point i carry the ranks
\* 1, 2, ..., len(neighbours of i) in emission order; along them the distance
\* does not decrease and the weight, 1 / (distance + 1e-5), does not
\* increase; every weight is strictly positive, also at distance 0.
C4_RankMonotonicity ==
  Ranked =>
    \A i \in 1..N : \A j \in 1..Len(neighbors[i]) :
      LET row == network_data[Offset(i) + j]
      IN /\ row.source = Basename(image_filenames[i])
         /\ row.rank = j
         /\ IsWeightOf(row.weight, row.distance)
         /\ row.weight > 0
         /\ j > 1 =>
              /\ network_data[Offset(i) + j - 1].distance <= row.distance
              /\ network_data[Offset(i) + j - 1].weight >= row.weight

\* a point with a neighbour at distance 0 and a second, farther one
C4_Witness ==
  \E n \in 2..Len(network_data) :
    /\ network_data[n].rank = 2
    /\ network_data[n - 1].distance = 0
    /\ network_data[n].distance > 0
    /\ network_data[n].weight < network_data[n - 1].weight

\* create_node_csv has built its nodes
Built == nodes # <<>>

NodeIds == [n \in 1..Len(nodes) |-> nodes[n].rec.id]

Endpoints ==
  {network_data[n].source : n \in 1..Len(network_data)}
    \cup {network_data[n].target : n \in 1..Len(network_data)}

\* C5: node identity: the rows create_node_csv writes have pairwise distinct
\* values in the id column, and the set of those values is the set of the
\* identifiers that are source or target of an edge, whatever the metadata.
C5_NodeIdentity == Built => Distinct(NodeIds) /\ Range(NodeIds) = Endpoints

Occurs(e, id) == network_data[e].source = id \/ network_data[e].target = id

\* the first edge, in emission order, in which id appears
FirstEdge(id) ==
  CHOOSE e \in 1..Len(network_data) :
    Occurs(e, id) /\ \A f \in 1..(e - 1) : ~Occurs(f, id)

\* the coordinates of id in that edge, the source looked at before the target
FirstXY(id) ==
  LET row == network_data[FirstEdge(id)]
  IN IF row.source = id THEN <<row.source_x, row.source_y>>
     ELSE <<row.target_x, row.target_y>>

\* C6: first occurrence wins: the node record of an identifier carries the
\* x, y of the first edge in emission order in which it appears (and, with
\* include_thumbs, the thumb and original paths resolved for it), and no
\* later step of the node construction changes them.
C6_FirstOccurrenceWins ==
  Built =>
    \A n \in 1..Len(nodes) :
      LET id == nodes[n].key
          rec == nodes[n].rec
      IN /\ <<rec.x, rec.y>> = FirstXY(id)
         /\ args.include_thumbs =>
              /\ rec.thumb = GetThumbnailPath(fs.media, <<id>>)
              /\ rec.original = GetOriginalPath(fs.media, <<id>>)

\* what <metadata dir>/<id>.json gives for a run: its dictionary, or nothing
EntryOf(id) ==
  IF args.include_metadata /\ fs.metadata_dir /\ fs.metadata_files[id].state = "json"
  THEN fs.metadata_files[id].json
  ELSE EmptyDict

SeedKeys ==
  {"id", "x", "y"} \cup (IF args.include_thumbs THEN {"thumb", "original"} ELSE {})

\* C7: metadata merge: a node whose image has an empty or absent metadata
\* entry has exactly the keys id, x, y (and thumb, original with
\* include_thumbs); every other node has, besides these, exactly the keys of
\* its own entry other than 'filename', each with that entry's value.
C7_MetadataMerge ==
  Built =>
    \A n \in 1..Len(nodes) :
      LET entry == EntryOf(nodes[n].key)
          rec == nodes[n].rec
      IN /\ DOMAIN entry = {} => DOMAIN rec = SeedKeys
         /\ DOMAIN rec = SeedKeys \cup (DOMAIN entry \ {"filename"})
         /\ \A k \in DOMAIN entry \ {"filename"} : rec[k] = entry[k]

\* one image without a metadata file beside one whose file names it and labels it
C7_Witness ==
  /\ Built
  /\ \E n, m \in 1..Len(nodes) :
       /\ fs.metadata_files[nodes[n].key].state = "absent"
       /\ DOMAIN nodes[n].rec = SeedKeys
       /\ "filename" \in DOMAIN EntryOf(nodes[m].key)
       /\ "label" \in DOMAIN nodes[m].rec

\* the data directory and the three input files were found and read
Found ==
  /\ fs.data_dir
  /\ fs.manifest = "ok"
  /\ fs.imagelist.status = "ok"
  /\ fs.layout.status = "ok"

\* extract_network_data has ended, by a return or by an exception
Extracted == pc \notin {"main", "extract"}

P == Len(fs.layout.positions)

F == Len(fs.imagelist.images)

Said(msg) == \E n \in 1..Len(log) : log[n] = msg

\* C8: shape mismatch: with P positions and F filenames, P # F and both at
\* least 1, extract_network_data does not abort; it keeps the first min(P, F)
\* positions and filenames, every edge has its source and target among those
\* filenames, and the neighbour lists have length min(k, min(P, F) - 1).
C8_ShapeMismatch ==
  (Found /\ Extracted /\ P # F /\ Min(P, F) >= 1) =>
    LET m == Min(P, F)
        kept == {Basename(fs.imagelist.images[i]) : i \in 1..m}
    IN /\ error = "none"
       /\ pc # "raised"
       /\ Said("Warning: Number of positions doesn't match number of images")
       /\ positions = SubSeq(fs.layout.positions, 1, m)
       /\ image_filenames = SubSeq(fs.imagelist.images, 1, m)
       /\ DOMAIN neighbors = 1..m
       /\ \A i \in 1..m : Len(neighbors[i]) = Min(args.n_neighbors, m - 1)
       /\ \A n \in 1..Len(network_data) :
            network_data[n].source \in kept /\ network_data[n].target \in kept

\* three filenames and two positions: the run goes on to a graph of two images
C8_Witness ==
  /\ Found
  /\ pc = "done"
  /\ F = 3
  /\ P = 2
  /\ Len(network_data) = 2
  /\ Len(writes) = 2

EdgesPath == args.output

Attempts(path) == {w \in 1..Len(writes) : writes[w].path = path}

Failed(path) == \E w \in Attempts(path) : writes[w].outcome # "ok"

\* what write_csv leaves at the edges path when it succeeds
EdgesFile ==
  [fieldnames |-> EdgeFieldnames(network_data), rows |-> network_data, complete |-> TRUE]

\* C9: write failures in main: the nodes file is written only after the
\* edges file was written with success; if the edges write fails, no nodes
\* write is attempted and the run reports the failure; once the nodes write
\* is attempted, and so if it fails, the edges file is as write_csv left it,
\* neither removed nor written again.
C9_WriteFailure ==
  /\ \A w \in Attempts(NodesPath(args.output)) :
       \E v \in 1..(w - 1) : writes[v].path = EdgesPath /\ writes[v].outcome = "ok"
  /\ Failed(EdgesPath) =>
       /\ Attempts(NodesPath(args.output)) = {}
       /\ pc = "done"
       /\ Said("Failed to write network data")
       /\ ~Said("Network data successfully exported")
  /\ Attempts(NodesPath(args.output)) # {} =>
       /\ Cardinality(Attempts(EdgesPath)) = 1
       /\ EdgesPath \in DOMAIN out
       /\ out[EdgesPath].complete
       /\ out[EdgesPath].fieldnames = EdgeFieldnames(network_data)
       /\ Len(out[EdgesPath].rows) = Len(network_data)
       /\ \A n \in 1..Len(network_data) :
            DOMAIN out[EdgesPath].rows[n] = DOMAIN network_data[n]
            /\ out[EdgesPath].rows[n] = network_data[n]

\* the nodes write has failed after the edges write succeeded
C9_Witness ==
  /\ pc = "done"
  /\ Failed(NodesPath(args.output))
  /\ ~Failed(EdgesPath)
  /\ out[EdgesPath].rows = network_data

\* no images, no points, a single point, or no neighbours asked for
Degenerate ==
  /\ fs.data_dir
  /\ fs.manifest = "ok"
  /\ fs.imagelist.status = "ok"
  /\ \/ F = 0
     \/ /\ fs.layout.status = "ok"
        /\ (Min(P, F) <= 1 \/ args.n_neighbors = 0)

\* C10: degenerate graph: with zero images (an empty image list, or no
\* point left after loading and truncation) or zero edges (N = 1 or k = 0),
\* the run ends normally as a no-op: it reports that there is nothing to
\* export, raises no error and writes neither file.
C10_DegenerateNoOp ==
  Degenerate =>
    /\ error = "none"
    /\ pc \notin {"raised", "write_edges", "write_nodes"}
    /\ writes = <<>>
    /\ DOMAIN out = {}
    /\ pc = "done" =>
         \/ Said("No images found in image list")
         \/ Said("Failed to read positions data")
         \/ Said("No network data was generated")

(***************************************************************************)
(* The outcome of the process.  main has no return value and the script    *)
(* ends with a bare call of main(): the interpreter exits with status 0    *)
(* whenever main returns, and with status 1 when an exception leaves it.   *)
(***************************************************************************)
ExitStatus == IF pc = "raised" THEN 1 ELSE 0

Loaded ==
  \/ image_filenames # <<>>
  \/ positions # <<>>
  \/ neighbors # <<>>
  \/ network_data # <<>>

\* a run with a data_dir that does not exist, after main has returned
InvalidDataRoot == ~fs.data_dir /\ pc = "done"

\* C11: invalid data root: when --data_dir does not exist, the run ends
\* without an exception, prints an error message, loads nothing, writes no
\* output file, and its outcome tells it from success as a failure: the
\* exit status is not zero.
C11_InvalidDataRoot ==
  InvalidDataRoot =>
    /\ error = "none"
    /\ log = <<"Error: Directory does not exist">>
    /\ ~Loaded
    /\ writes = <<>>
    /\ DOMAIN out = {}
    /\ ExitStatus # 0

(***************************************************************************)
(* The header rows of the two files.                                       *)
(***************************************************************************)
\* s is in ascending lexicographic order and repeats no name
Ascending(s) ==
  \A i \in 1..(Len(s) - 1) : StrLeq(s[i], s[i + 1]) /\ s[i] # s[i + 1]

\* header is the names of first, then every other key of any row, ascending
IsHeaderFor(header, first, rows) ==
  LET rest == SubSeq(header, Len(first) + 1, Len(header))
  IN /\ Len(header) >= Len(first)
     /\ SubSeq(header, 1, Len(first)) = first
     /\ Ascending(rest)
     /\ Range(rest) = AllKeys(rows) \ Range(first)

Written(path) == path \in DOMAIN out /\ out[path].complete

\* C12: column order: the header write_csv writes is source, target,
\* weight, distance, rank and then every other key of any edge row in
\* ascending lexicographic order without repeats; the header
\* create_node_csv writes is id and then every other key of any node record
\* in ascending lexicographic order without repeats.  Each header is thereby
\* fixed by the set of keys alone, so identical input gives identical headers.
C12_ColumnOrder ==
  /\ Written(EdgesPath) =>
       IsHeaderFor(out[EdgesPath].fieldnames, essential_cols, out[EdgesPath].rows)
  /\ Written(NodesPath(args.output)) =>
       IsHeaderFor(out[NodesPath(args.output)].fieldnames, <<"id">>,
                   out[NodesPath(args.output)].rows)

\* both files written, the nodes file with metadata columns in upper and lower case
C12_Witness ==
  /\ Written(EdgesPath)
  /\ out[EdgesPath].fieldnames =
       essential_cols \o <<"source_x", "source_y", "target_x", "target_y">>
  /\ Written(NodesPath(args.output))
  /\ out[NodesPath(args.output)].fieldnames =
       <<"id", "Year", "label", "original", "thumb", "x", "y">>

(***************************************************************************)
(* The final report of main.                                               *)
(***************************************************************************)
Succeeded(path) == \E w \in Attempts(path) : writes[w].outcome = "ok"

ReportedSuccess == Said("Network data successfully exported")

\* C13: main prints 'Network data successfully exported to <edges> and
\* <nodes>' only in runs where both the write of the edges file and the
\* write of the nodes file succeeded; when either write failed the report
\* is not printed.
C13_SuccessOnlyAfterBothWrites ==
  ReportedSuccess =>
    /\ Succeeded(EdgesPath) /\ ~Failed(EdgesPath)
    /\ Succeeded(NodesPath(args.output)) /\ ~Failed(NodesPath(args.output))

====
